---- MODULE Spec2Model ----
(***************************************************************************)
(* Model of argx (src/argx.h): the command line scan argx::parse, the      *)
(* ParseResultBuilder it fills, and the accessors of ParseResult.          *)
(*                                                                         *)
(* A std::string is a sequence of one-character strings.  argv is the      *)
(* sequence of the process's tokens; C's argv[i] is argv[i + 1] here.      *)
(* A std::list<std::string> is a sequence of strings, the options_map a    *)
(* function from its keys to such sequences, a std::optional<std::string>  *)
(* a sequence of at most one string.                                       *)
(***************************************************************************)
EXTENDS Integers, Sequences, FiniteSets, TLC

VARIABLES argv, i, previous, args, options, flags, pc, _args, _opts, _flags, last

vars == <<argv, i, previous, args, options, flags, pc, _args, _opts, _flags, last>>

(***************************************************************************)
(* Bounds and input sets.                                                  *)
(***************************************************************************)
\* Most tokens after the program name, for the scan (Spec).
MaxTokens == 4
\* Most tokens after the program name when the accessors are called too (ViewSpec).
MaxViewTokens == 3
\* Longest alias list (std::initializer_list) given to a lookup.
MaxAliases == 2

\* The dash prefixes of the tokens: parse looks at arg[0] and arg[1] only, so
\* none, one and two dashes reach its three branches; the token "---k" leaves
\* a dash after substr(2).
DashCounts == 0 .. 2
\* What follows the dash prefix: nothing (a dash-only token, or "") or a name.
Bodies == { <<>>, <<"k">>, <<"v">> }

RECURSIVE Dashes(_)
Dashes(d) == IF d = 0 THEN <<>> ELSE <<"-">> \o Dashes(d - 1)

Tokens == { Dashes(d) \o b : d \in DashCounts, b \in Bodies } \cup { <<"-", "-", "-", "k">> }

RECURSIVE SeqsUpTo(_, _)
SeqsUpTo(S, n) ==
    IF n = 0 THEN { <<>> }
    ELSE LET shorter == SeqsUpTo(S, n - 1)
         IN  shorter \cup { Append(s, x) : s \in { t \in shorter : Len(t) = n - 1 }, x \in S }

\* argv[0], the program's name.
ProgName == <<"a", "r", "g", "x">>
\* The keys and flag names the accessors are asked for, the fallbacks and the indices.
Keys == { <<"k">>, <<"v">> }
Defaults == { <<"d">> }
Indices == -2 .. (MaxViewTokens + 1)

(***************************************************************************)
(* std::string, on the operations parse uses.                              *)
(***************************************************************************)
NUL == "\\0"
\* arg[p], 0-based: arg[size()] is the terminating null character.
CharAt(s, p) == IF p < Len(s) THEN s[p + 1] ELSE NUL
\* arg.substr(pos), for pos <= size().
substr(s, pos) == SubSeq(s, pos + 1, Len(s))

argc == Len(argv)
ArgvAt(n) == argv[n + 1]

\* line 211: arg[0] == '-' && arg[1] == '-'
IsFlagToken(arg) == CharAt(arg, 0) = "-" /\ CharAt(arg, 1) = "-"
\* line 217: else if (arg[0] == '-')
IsOptionToken(arg) == ~IsFlagToken(arg) /\ CharAt(arg, 0) = "-"
\* line 222: else
IsArgumentToken(arg) == ~IsFlagToken(arg) /\ ~IsOptionToken(arg)

\* line 216: arg.substr(2)
FlagName(arg) == substr(arg, 2)
\* line 221: arg.substr(1)
OptionName(arg) == substr(arg, 1)

(***************************************************************************)
(* ParseResultBuilder.                                                     *)
(***************************************************************************)
EmptyMap == [k \in {} |-> <<>>]
contains(m, key) == key \in DOMAIN m
MapPut(m, key, vs) == [k \in DOMAIN m \cup {key} |-> IF k = key THEN vs ELSE m[k]]

\* void arg(const std::string& arg)
BuilderArg(a, arg) == Append(a, arg)

\* void option(const std::string& key, const std::string& value)
BuilderOptionValue(opts, key, value) ==
    IF contains(opts, key)
    THEN MapPut(opts, key, Append(opts[key], value))
    ELSE MapPut(opts, key, <<value>>)

\* A slip in option(key): the entry is reset even when the key has values.
BuilderOptionKeyOverwrite(opts, key) == MapPut(opts, key, <<>>)

\* void option(const std::string& key)
BuilderOptionKey(opts, key) ==
    IF ~contains(opts, key) THEN MapPut(opts, key, <<>>) ELSE opts

\* void flag(const std::string& flag)
BuilderFlag(f, flag) == Append(f, flag)

(***************************************************************************)
(* argx::parse.                                                            *)
(***************************************************************************)
has_value(prev) == prev # <<>>
value(prev) == prev[1]
nullopt == <<>>

\* A slip in parse: a pending option without a value is never registered.
RegisterPreviousSkipped(prev, opts) == opts

\* if (previous.has_value()) builder.option(previous.value());
RegisterPrevious(prev, opts) ==
    IF has_value(prev) THEN BuilderOptionKey(opts, value(prev)) ELSE opts

\* A slip in the flag branch: previous is not reset.
PreviousKeptAfterFlag(prev) == prev

\* previous after the flag branch: reset when it held a value.
PreviousAfterFlag(prev) == IF has_value(prev) THEN nullopt ELSE prev

\* previous after the argument branch: reset when it held a value.
PreviousAfterArgument(prev) == IF has_value(prev) THEN nullopt ELSE prev

\* options after the argument branch.
OptionsAfterArgument(prev, opts, arg) ==
    IF has_value(prev) THEN BuilderOptionValue(opts, value(prev), arg) ELSE opts

\* args after the argument branch.
ArgsAfterArgument(prev, a, arg) ==
    IF has_value(prev) THEN a ELSE BuilderArg(a, arg)

NoCall == [call |-> "none", index |-> 0, keys |-> <<>>, def |-> <<>>,
           out |-> [tag |-> "none", val |-> <<>>]]

InitWith(n) ==
    /\ argv \in { <<>> } \cup { <<ProgName>> \o t : t \in SeqsUpTo(Tokens, n) }
    /\ i = 1
    /\ previous = nullopt
    /\ args = <<>>
    /\ options = EmptyMap
    /\ flags = <<>>
    /\ pc = "scan"
    /\ _args = <<>>
    /\ _opts = EmptyMap
    /\ _flags = <<>>
    /\ last = NoCall

Init == InitWith(MaxTokens)

ViewInit == InitWith(MaxViewTokens)

Scanning == pc = "scan" /\ i < argc

\* lines 211-216
ScanFlag ==
    /\ Scanning
    /\ IsFlagToken(ArgvAt(i))
    /\ options' = RegisterPrevious(previous, options)
    /\ previous' = PreviousAfterFlag(previous)
    /\ flags' = BuilderFlag(flags, FlagName(ArgvAt(i)))
    /\ i' = i + 1
    /\ UNCHANGED <<argv, args, pc, _args, _opts, _flags, last>>

\* lines 217-221
ScanOption ==
    /\ Scanning
    /\ IsOptionToken(ArgvAt(i))
    /\ options' = RegisterPrevious(previous, options)
    /\ previous' = <<OptionName(ArgvAt(i))>>
    /\ i' = i + 1
    /\ UNCHANGED <<argv, args, flags, pc, _args, _opts, _flags, last>>

\* lines 222-229
ScanArgument ==
    /\ Scanning
    /\ IsArgumentToken(ArgvAt(i))
    /\ options' = OptionsAfterArgument(previous, options, ArgvAt(i))
    /\ args' = ArgsAfterArgument(previous, args, ArgvAt(i))
    /\ previous' = PreviousAfterArgument(previous)
    /\ i' = i + 1
    /\ UNCHANGED <<argv, flags, pc, _args, _opts, _flags, last>>

\* lines 231-234: the loop is over; register a pending option and build().
Finish ==
    /\ pc = "scan"
    /\ ~(i < argc)
    /\ options' = RegisterPrevious(previous, options)
    /\ _args' = args
    /\ _opts' = options'
    /\ _flags' = flags
    /\ pc' = "done"
    /\ UNCHANGED <<argv, i, previous, args, flags, last>>

Next == ScanFlag \/ ScanOption \/ ScanArgument \/ Finish

Spec == Init /\ [][Next]_vars

(***************************************************************************)
(* ParseResult: the outcome of a call is a record [tag, val].  Reading     *)
(* through an iterator outside the list, or front() of an empty list, is   *)
(* undefined behaviour: the call may end the process or hand back whatever *)
(* the memory read holds.                                                  *)
(***************************************************************************)
Value(s) == [tag |-> "value", val |-> s]
IndexOutOfRange == [tag |-> "IndexOutOfRange", val |-> <<>>]
KeyNotFound == [tag |-> "KeyNotFound", val |-> <<>>]
Garbage == Defaults \cup { <<>> }
UndefinedOutcomes ==
    { [tag |-> "crash", val |-> <<>>] } \cup { [tag |-> "garbage", val |-> g] : g \in Garbage }
IsUndefined(o) == o.tag \in { "crash", "garbage" }

\* (size_t) index, the conversion the comparison index >= _args.size() applies to
\* its int operand: a negative index becomes 2^64 + index.  The value is
\* low + (IF wrapped THEN 2^64 ELSE 0), kept in two parts because 2^64 is no
\* machine integer of the checker.
SizeT(index) == [wrapped |-> index < 0, low |-> index]
\* u >= size for a list size: 2^64 + low exceeds every size a list can have.
SizeGE(u, size) == u.wrapped \/ u.low >= size

\* A slip in the bounds test: the comparison made on signed integers.
IndexPastEndSigned(index, size) == index >= size

\* index >= _args.size()
IndexPastEnd(index, size) == SizeGE(SizeT(index), size)

\* auto it = list.begin(); std::advance(it, index); return *it;
ListAt(list, index) ==
    IF index >= 0 /\ index < Len(list) THEN { Value(list[index + 1]) } ELSE UndefinedOutcomes

\* list.front()
front(list) == IF list = <<>> THEN UndefinedOutcomes ELSE { Value(list[1]) }

\* The map after _opts[key]: std::map::operator[] inserts an absent key.
MapIndex(m, key) == IF contains(m, key) THEN m ELSE MapPut(m, key, <<>>)

\* std::string argOrDef(const int index, const std::string& def)
argOrDef(list, index, def) ==
    IF IndexPastEnd(index, Len(list)) THEN { Value(def) } ELSE ListAt(list, index)

\* std::string argument(const int index)
argument(list, index) ==
    IF IndexPastEnd(index, Len(list)) THEN { IndexOutOfRange } ELSE ListAt(list, index)

\* The first position of keys whose key the map contains, 0 when there is none:
\* for (const auto& key : keys) if (_opts.contains(key)) ...
RECURSIVE FirstContained(_, _, _)
FirstContained(m, keys, n) ==
    IF n > Len(keys) THEN 0
    ELSE IF contains(m, keys[n]) THEN n
    ELSE FirstContained(m, keys, n + 1)

\* return _opts[key].front();
FrontOf(m, key) ==
    { [opts |-> MapIndex(m, key), out |-> o] : o \in front(MapIndex(m, key)[key]) }

\* std::string optionOrDef(const std::string& key, const std::string& def)
optionOrDef(m, key, def) ==
    IF contains(m, key) THEN FrontOf(m, key) ELSE { [opts |-> m, out |-> Value(def)] }

\* std::string optionOrDef(const string_il keys, const std::string& def)
optionOrDefIl(m, keys, def) ==
    LET n == FirstContained(m, keys, 1)
    IN  IF n # 0 THEN FrontOf(m, keys[n]) ELSE { [opts |-> m, out |-> Value(def)] }

\* std::string option(const string_il keys)
optionIl(m, keys) ==
    LET n == FirstContained(m, keys, 1)
    IN  IF n # 0 THEN FrontOf(m, keys[n]) ELSE { [opts |-> m, out |-> KeyNotFound] }

\* std::string option(std::string key)
option(m, key) == optionIl(m, <<key>>)

\* A slip in options(key): _opts[key] without the contains test.
optionsKeyUnguarded(m, key) ==
    [opts |-> MapIndex(m, key), out |-> [tag |-> "list", val |-> MapIndex(m, key)[key]]]

\* string_list options(const std::string& key)
optionsKey(m, key) ==
    IF contains(m, key)
    THEN [opts |-> MapIndex(m, key), out |-> [tag |-> "list", val |-> MapIndex(m, key)[key]]]
    ELSE [opts |-> m, out |-> [tag |-> "list", val |-> <<>>]]

\* string_list options(const string_il keys): the loop from position n on, with
\* result so far.
RECURSIVE optionsFrom(_, _, _, _)
optionsFrom(m, keys, n, result) ==
    IF n > Len(keys) THEN [opts |-> m, out |-> [tag |-> "list", val |-> result]]
    ELSE IF contains(m, keys[n])
    THEN optionsFrom(MapIndex(m, keys[n]), keys, n + 1, result \o MapIndex(m, keys[n])[keys[n]])
    ELSE optionsFrom(m, keys, n + 1, result)

optionsIl(m, keys) == optionsFrom(m, keys, 1, <<>>)

\* bool flag(const std::string& flag)
flag(list, name) == \E n \in 1 .. Len(list) : list[n] = name

AliasLists == SeqsUpTo(Keys, MaxAliases)

Call(name, index, keys, def, out) ==
    [call |-> name, index |-> index, keys |-> keys, def |-> def, out |-> out]

Built == pc = "done"

CallArgOrDef ==
    /\ Built
    /\ pc' = "called"
    /\ \E index \in Indices, def \in Defaults :
         \E o \in argOrDef(_args, index, def) :
            last' = Call("argOrDef", index, <<>>, def, o)
    /\ UNCHANGED <<argv, i, previous, args, options, flags, _args, _opts, _flags>>

CallArgument ==
    /\ Built
    /\ pc' = "called"
    /\ \E index \in Indices :
         \E o \in argument(_args, index) :
            last' = Call("argument", index, <<>>, <<>>, o)
    /\ UNCHANGED <<argv, i, previous, args, options, flags, _args, _opts, _flags>>

CallOptionOrDef ==
    /\ Built
    /\ pc' = "called"
    /\ \E key \in Keys, def \in Defaults :
         \E r \in optionOrDef(_opts, key, def) :
            /\ _opts' = r.opts
            /\ last' = Call("optionOrDef", 0, <<key>>, def, r.out)
    /\ UNCHANGED <<argv, i, previous, args, options, flags, _args, _flags>>

CallOptionOrDefIl ==
    /\ Built
    /\ pc' = "called"
    /\ \E keys \in AliasLists, def \in Defaults :
         \E r \in optionOrDefIl(_opts, keys, def) :
            /\ _opts' = r.opts
            /\ last' = Call("optionOrDefIl", 0, keys, def, r.out)
    /\ UNCHANGED <<argv, i, previous, args, options, flags, _args, _flags>>

CallOption ==
    /\ Built
    /\ pc' = "called"
    /\ \E key \in Keys :
         \E r \in option(_opts, key) :
            /\ _opts' = r.opts
            /\ last' = Call("option", 0, <<key>>, <<>>, r.out)
    /\ UNCHANGED <<argv, i, previous, args, options, flags, _args, _flags>>

CallOptionIl ==
    /\ Built
    /\ pc' = "called"
    /\ \E keys \in AliasLists :
         \E r \in optionIl(_opts, keys) :
            /\ _opts' = r.opts
            /\ last' = Call("optionIl", 0, keys, <<>>, r.out)
    /\ UNCHANGED <<argv, i, previous, args, options, flags, _args, _flags>>

CallOptionsKey ==
    /\ Built
    /\ pc' = "called"
    /\ \E key \in Keys :
         /\ _opts' = optionsKey(_opts, key).opts
         /\ last' = Call("optionsKey", 0, <<key>>, <<>>, optionsKey(_opts, key).out)
    /\ UNCHANGED <<argv, i, previous, args, options, flags, _args, _flags>>

CallOptionsIl ==
    /\ Built
    /\ pc' = "called"
    /\ \E keys \in AliasLists :
         /\ _opts' = optionsIl(_opts, keys).opts
         /\ last' = Call("optionsIl", 0, keys, <<>>, optionsIl(_opts, keys).out)
    /\ UNCHANGED <<argv, i, previous, args, options, flags, _args, _flags>>

CallFlag ==
    /\ Built
    /\ pc' = "called"
    /\ \E name \in Keys :
         last' = Call("flag", 0, <<name>>, <<>>, [tag |-> "bool", val |-> flag(_flags, name)])
    /\ UNCHANGED <<argv, i, previous, args, options, flags, _args, _opts, _flags>>

\* argSize(), optionSize(), flagSize()
CallSize ==
    /\ Built
    /\ pc' = "called"
    /\ \/ last' = Call("argSize", 0, <<>>, <<>>, [tag |-> "size", val |-> Len(_args)])
       \/ last' = Call("optionSize", 0, <<>>, <<>>, [tag |-> "size", val |-> Cardinality(DOMAIN _opts)])
       \/ last' = Call("flagSize", 0, <<>>, <<>>, [tag |-> "size", val |-> Len(_flags)])
    /\ UNCHANGED <<argv, i, previous, args, options, flags, _args, _opts, _flags>>

\* args(), options(), flags(): each returns a copy.
CallCollection ==
    /\ Built
    /\ pc' = "called"
    /\ \/ last' = Call("args", 0, <<>>, <<>>, [tag |-> "list", val |-> _args])
       \/ last' = Call("options", 0, <<>>, <<>>, [tag |-> "map", val |-> _opts])
       \/ last' = Call("flags", 0, <<>>, <<>>, [tag |-> "list", val |-> _flags])
    /\ UNCHANGED <<argv, i, previous, args, options, flags, _args, _opts, _flags>>

\* The caller has taken the returned value; a call that ended the process
\* does not return.
Return ==
    /\ pc = "called"
    /\ last.out.tag # "crash"
    /\ pc' = "done"
    /\ last' = NoCall
    /\ UNCHANGED <<argv, i, previous, args, options, flags, _args, _opts, _flags>>

ViewNext ==
    \/ Next
    \/ Return
    \/ CallArgOrDef \/ CallArgument
    \/ CallOptionOrDef \/ CallOptionOrDefIl \/ CallOption \/ CallOptionIl
    \/ CallOptionsKey \/ CallOptionsIl
    \/ CallFlag \/ CallSize \/ CallCollection

ViewSpec == ViewInit /\ [][ViewNext]_vars

(***************************************************************************)
(* The input as the claims speak of it: the tokens parse scans, which are  *)
(* argv[1] .. argv[argc - 1].                                              *)
(***************************************************************************)
Input == IF argv = <<>> THEN <<>> ELSE Tail(argv)
Positions == 1 .. Len(Input)

\* The number of leading '-' characters of a token.
RECURSIVE DashPrefix(_)
DashPrefix(t) == IF t # <<>> /\ Head(t) = "-" THEN 1 + DashPrefix(Tail(t)) ELSE 0
\* The token without its leading dashes.
Remainder(t) == SubSeq(t, DashPrefix(t) + 1, Len(t))
\* One or more dashes and nothing else.
IsDashOnly(t) == t # <<>> /\ Remainder(t) = <<>>

RECURSIVE SumLen(_, _)
SumLen(m, ks) ==
    IF ks = {} THEN 0
    ELSE LET k == CHOOSE x \in ks : TRUE IN Len(m[k]) + SumLen(m, ks \ {k})

\* The bare tokens that directly follow an occurrence of -k, from position j on.
RECURSIVE AttachedValues(_, _)
AttachedValues(k, j) ==
    IF j > Len(Input) THEN <<>>
    ELSE (IF /\ DashPrefix(Input[j]) = 1
             /\ SubSeq(Input[j], 2, Len(Input[j])) = k
             /\ j < Len(Input)
             /\ DashPrefix(Input[j + 1]) = 0
          THEN <<Input[j + 1]>> ELSE <<>>) \o AttachedValues(k, j + 1)

\* The bare tokens that do not directly follow a single-dash token, from j on.
RECURSIVE Positionals(_)
Positionals(j) ==
    IF j > Len(Input) THEN <<>>
    ELSE (IF DashPrefix(Input[j]) = 0 /\ (j = 1 \/ DashPrefix(Input[j - 1]) # 1)
          THEN <<Input[j]>> ELSE <<>>) \o Positionals(j + 1)

\* The tokens of two or more dashes with all their dashes stripped, from j on.
RECURSIVE StrippedFlags(_)
StrippedFlags(j) ==
    IF j > Len(Input) THEN <<>>
    ELSE (IF DashPrefix(Input[j]) >= 2 THEN <<Remainder(Input[j])>> ELSE <<>>)
         \o StrippedFlags(j + 1)

\* C1: when parse returns, positionals + option-introducing tokens (one dash and
\* a name) + option values + flags + dash-only (inert) tokens equals the number
\* of input tokens, no token being dropped or counted twice.
C1_TokenAccounting ==
    pc = "done" =>
        Len(_args)
        + Cardinality({ j \in Positions : DashPrefix(Input[j]) = 1 /\ ~IsDashOnly(Input[j]) })
        + SumLen(_opts, DOMAIN _opts)
        + Len(_flags)
        + Cardinality({ j \in Positions : IsDashOnly(Input[j]) })
        = Len(Input)

\* C2: when parse returns, every key's value sequence is exactly the bare tokens
\* attached to the occurrences of that option, in input order: occurrences
\* accumulate and a later one never overwrites or removes earlier values.
C2_Accumulate ==
    pc = "done" => \A k \in DOMAIN _opts : _opts[k] = AttachedValues(k, 1)

\* C2's case: one key holds two different values from two occurrences.
C2_Witness ==
    /\ pc = "done"
    /\ \E k \in DOMAIN _opts : Len(_opts[k]) = 2 /\ _opts[k][1] # _opts[k][2]
    /\ \E j \in Positions : j + 2 \in Positions /\ DashPrefix(Input[j]) = 1 /\ Input[j + 2] = Input[j]

\* C3: when parse returns, the name of every single-dash token is a key of the
\* mapping, whatever follows the token, with an empty value sequence when no
\* occurrence of the name received a value.
C3_OptionRegistered ==
    pc = "done" =>
        \A j \in Positions :
            DashPrefix(Input[j]) = 1 =>
                LET k == SubSeq(Input[j], 2, Len(Input[j]))
                IN  /\ k \in DOMAIN _opts
                    /\ (AttachedValues(k, 1) = <<>> => _opts[k] = <<>>)

ValuelessAt(j) ==
    /\ j \in Positions
    /\ DashPrefix(Input[j]) = 1
    /\ SubSeq(Input[j], 2, Len(Input[j])) \in DOMAIN _opts
    /\ _opts[SubSeq(Input[j], 2, Len(Input[j]))] = <<>>

\* C3's cases: a valueless option before a flag, one before another option and
\* one at the end of the input.
C3_Witness ==
    /\ pc = "done"
    /\ \E j \in Positions : ValuelessAt(j) /\ j + 1 \in Positions /\ DashPrefix(Input[j + 1]) >= 2
    /\ \E j \in Positions : ValuelessAt(j) /\ j + 1 \in Positions /\ DashPrefix(Input[j + 1]) = 1
    /\ \E j \in Positions : ValuelessAt(j) /\ j = Len(Input)

\* C4: a dash-only token is inert: when parse returns, the mapping has no
\* empty-string key (no dash-only token became an option or captured a value)
\* and the flag sequence holds one entry per token of two or more dashes that
\* has a name, none for a dash-only token.
C4_DashOnlyInert ==
    pc = "done" =>
        /\ \A k \in DOMAIN _opts : k # <<>>
        /\ Len(_flags) = Cardinality({ j \in Positions :
                                         DashPrefix(Input[j]) >= 2 /\ ~IsDashOnly(Input[j]) })
        /\ Len(_args) = Cardinality({ j \in Positions :
                                         /\ DashPrefix(Input[j]) = 0
                                         /\ (j = 1 \/ DashPrefix(Input[j - 1]) # 1
                                                   \/ IsDashOnly(Input[j - 1])) })

\* C5: when parse returns, the flag sequence is the tokens of two or more
\* leading dashes, in input order with duplicates kept, each with all of its
\* leading dashes stripped, so that no flag name begins with a dash.
C5_FlagNames ==
    pc = "done" =>
        /\ _flags = StrippedFlags(1)
        /\ \A n \in 1 .. Len(_flags) : _flags[n] = <<>> \/ _flags[n][1] # "-"

IsLookup(c) == c.call \in { "option", "optionIl", "optionOrDef", "optionOrDefIl" }

\* C6: no single-value option lookup reads the front of an empty value
\* sequence: the outcome of option and of optionOrDef is always defined.
C6_NoFrontOfEmpty == IsLookup(last) => ~IsUndefined(last.out)

\* The first key of an alias list that the mapping holds, as a set of at most one.
FirstPresent(keys) ==
    { keys[n] : n \in { x \in 1 .. Len(keys) :
                          /\ keys[x] \in DOMAIN _opts
                          /\ \A y \in 1 .. (x - 1) : keys[y] \notin DOMAIN _opts } }

\* C7: a strict lookup raises KeyNotFound exactly when no alias is a key and
\* otherwise returns the first value of the first alias that is a key; the
\* or-default lookup returns the fallback exactly where the strict one raises.
C7_AliasLookup ==
    IsLookup(last) =>
        IF FirstPresent(last.keys) = {}
        THEN last.out = (IF last.call \in { "option", "optionIl" }
                         THEN KeyNotFound ELSE Value(last.def))
        ELSE \A k \in FirstPresent(last.keys) :
                /\ _opts[k] # <<>>
                /\ last.out = Value(_opts[k][1])

\* C8: for every index, negative ones included, argument raises IndexOutOfRange
\* and argOrDef returns the fallback exactly when the index is not in
\* 0 .. argSize - 1; otherwise both return the positional argument at the index.
C8_PositionalLookup ==
    last.call \in { "argument", "argOrDef" } =>
        IF last.index \in 0 .. (Len(_args) - 1)
        THEN last.out = Value(_args[last.index + 1])
        ELSE last.out = (IF last.call = "argument" THEN IndexOutOfRange ELSE Value(last.def))

\* C8's case: a negative index is refused by a Result that has arguments.
C8_Witness ==
    /\ pc = "called"
    /\ last.call = "argument"
    /\ last.index < 0
    /\ _args # <<>>
    /\ last.out = IndexOutOfRange

\* C9: once the Result is built no accessor call changes it, whatever the keys
\* and indices and whether or not the call ends in an error: a lookup of an
\* absent key does not insert the key.
C9_Immutable ==
    [][(pc \in { "done", "called" }) => (_args' = _args /\ _opts' = _opts /\ _flags' = _flags)]_vars

\* C9's case: an absent key was looked up, by a call that ended in an error, and
\* is absent still.
C9_Witness ==
    /\ pc = "called"
    /\ last.call = "option"
    /\ last.out = KeyNotFound
    /\ last.keys[1] \notin DOMAIN _opts
    /\ DOMAIN _opts # {}

\* C10: during the scan the pending option name is set exactly when the token
\* scanned last was a single-dash token, and is that token's name; so when
\* parse returns the positionals are the bare tokens that do not directly
\* follow a single-dash token.
C10_PendingOption ==
    /\ pc = "scan" =>
          /\ has_value(previous) <=> (i >= 2 /\ DashPrefix(ArgvAt(i - 1)) = 1)
          /\ has_value(previous) => value(previous) = SubSeq(ArgvAt(i - 1), 2, Len(ArgvAt(i - 1)))
    /\ pc = "done" => _args = Positionals(1)

\* C10's case: a bare token after a flag that itself follows an option is
\* positional, and so is the second bare token after an option.
C10_Witness ==
    /\ pc = "done"
    /\ \E j \in Positions :
          /\ j + 2 \in Positions
          /\ DashPrefix(Input[j]) = 1
          /\ DashPrefix(Input[j + 1]) >= 2
          /\ DashPrefix(Input[j + 2]) = 0
          /\ _args = <<Input[j + 2]>>

====
